---- MODULE Spec2Model ----
(***************************************************************************)
(* Model of src/src/services/playlistImportService.ts: the playlist        *)
(* import pipeline (URL classification, per-platform fetchers with         *)
(* fallback, per-track catalog matching, persistence, progress events).    *)
(* One importPlaylist invocation is one behaviour; every await of the code *)
(* is one action whose collaborator answer is chosen nondeterministically. *)
(***************************************************************************)
EXTENDS Integers, Sequences, FiniteSets, TLC

\* ------------------------------------------------------------------ bounds
\* Longest track list a platform payload carries.
MaxTracks == 2
\* Longest result list a catalog search returns.
MaxResults == 2

\* ------------------------------------------------------------- characters
\* A URL is the sequence of its characters.
LowerSeq ==
    <<"a", "b", "c", "d", "e", "f", "g", "h", "i", "j", "k", "l", "m", "n", "o", "p", "q", "r", "s", "t", "u", "v", "w", "x", "y", "z">>
UpperSeq ==
    <<"A", "B", "C", "D", "E", "F", "G", "H", "I", "J", "K", "L", "M", "N", "O", "P", "Q", "R", "S", "T", "U", "V", "W", "X", "Y", "Z">>
LowerChars == {LowerSeq[k] : k \in 1..26}
UpperChars == {UpperSeq[k] : k \in 1..26}
DigitChars == {"0", "1", "2", "3", "4", "5", "6", "7", "8", "9"}
AlnumChars == LowerChars \cup UpperChars \cup DigitChars
OtherChars == {".", "/", "?", "&", "=", "_", "-", ":"}
NonSlashChars == (AlnumChars \cup OtherChars) \ {"/"}

\* String.prototype.toLowerCase, character by character.
toLowerCase(s) ==
    [k \in 1..Len(s) |->
        IF s[k] \in UpperChars
        THEN LowerSeq[CHOOSE n \in 1..26 : UpperSeq[n] = s[k]]
        ELSE s[k]]

\* p occurs in s at position i.
OccursAt(s, p, i) ==
    /\ i >= 1
    /\ i + Len(p) - 1 <= Len(s)
    /\ \A k \in 1..Len(p) : s[i + k - 1] = p[k]

\* String.prototype.includes.
includes(s, p) == \E i \in 1..Len(s) : OccursAt(s, p, i)

SetMax(S) == CHOOSE x \in S : \A y \in S : y <= x
SetMin(S) == CHOOSE x \in S : \A y \in S : x <= y

\* Last position of the greedy run of Class characters starting at i
\* (i - 1 when s[i] is not in Class): the regex quantifier "+" / "*".
RunEnd(s, i, Class) ==
    SetMax({j \in (i - 1)..Len(s) : \A k \in i..j : s[k] \in Class})

\* ------------------------------------------------------------ URL literals
N_spotify_com == <<"s", "p", "o", "t", "i", "f", "y", ".", "c", "o", "m">>
N_spotify_link == <<"s", "p", "o", "t", "i", "f", "y", ".", "l", "i", "n", "k">>
N_music_apple == <<"m", "u", "s", "i", "c", ".", "a", "p", "p", "l", "e", ".", "c", "o", "m">>
N_itunes_apple == <<"i", "t", "u", "n", "e", "s", ".", "a", "p", "p", "l", "e", ".", "c", "o", "m">>
N_music_youtube == <<"m", "u", "s", "i", "c", ".", "y", "o", "u", "t", "u", "b", "e", ".", "c", "o", "m">>
N_youtube_playlist ==
    <<"y", "o", "u", "t", "u", "b", "e", ".", "c", "o", "m", "/", "p", "l", "a", "y", "l", "i", "s", "t">>
P_playlist == <<"p", "l", "a", "y", "l", "i", "s", "t", "/">>
P_apple == <<"m", "u", "s", "i", "c", ".", "a", "p", "p", "l", "e", ".", "c", "o", "m", "/">>
P_slash_playlist == <<"/", "p", "l", "a", "y", "l", "i", "s", "t", "/">>
P_pl == <<"p", "l", ".">>
P_list == <<"l", "i", "s", "t", "=">>

\* A faulty variant of detectPlatform: the URL is not lower-cased first.
detectPlatformCaseSensitive(url) ==
    IF includes(url, N_spotify_com) \/ includes(url, N_spotify_link)
    THEN "spotify"
    ELSE IF includes(url, N_music_apple) \/ includes(url, N_itunes_apple)
    THEN "apple"
    ELSE IF includes(url, N_music_youtube) \/ includes(url, N_youtube_playlist)
    THEN "youtube"
    ELSE "unknown"

\* ---------------------------------------------------------- URL Classifier
detectPlatform(url) ==
    LET lowerUrl == toLowerCase(url) IN
    IF includes(lowerUrl, N_spotify_com) \/ includes(lowerUrl, N_spotify_link)
    THEN "spotify"
    ELSE IF includes(lowerUrl, N_music_apple) \/ includes(lowerUrl, N_itunes_apple)
    THEN "apple"
    ELSE IF includes(lowerUrl, N_music_youtube) \/ includes(lowerUrl, N_youtube_playlist)
    THEN "youtube"
    ELSE "unknown"

\* "No identifier": the parsers' null. A parsed identifier is never empty (the
\* patterns ask for one character or more).
NoId == <<>>

\* url.match(/playlist\/([a-zA-Z0-9]+)/): leftmost match, greedy group.
parseSpotifyUrl(url) ==
    LET starts == {i \in 1..Len(url) :
                      /\ OccursAt(url, P_playlist, i)
                      /\ i + 9 <= Len(url)
                      /\ url[i + 9] \in AlnumChars}
    IN  IF starts = {} THEN NoId
        ELSE LET i == SetMin(starts)
             IN  SubSeq(url, i + 9, RunEnd(url, i + 9, AlnumChars))

NoAppleId == [storefront |-> NoId, id |-> NoId]

\* The positions where
\* /music\.apple\.com\/([a-z]{2})\/playlist\/[^\/]+\/(pl\.[a-zA-Z0-9]+)/ matches.
AppleMatchStarts(url) ==
    {i \in 1..Len(url) :
        /\ OccursAt(url, P_apple, i)
        /\ i + 17 <= Len(url)
        /\ url[i + 16] \in LowerChars
        /\ url[i + 17] \in LowerChars
        /\ OccursAt(url, P_slash_playlist, i + 18)
        /\ LET e == RunEnd(url, i + 28, NonSlashChars)
           IN  /\ e >= i + 28
               /\ e + 1 <= Len(url)
               /\ url[e + 1] = "/"
               /\ OccursAt(url, P_pl, e + 2)
               /\ RunEnd(url, e + 5, AlnumChars) >= e + 5}

parseAppleMusicUrl(url) ==
    LET starts == AppleMatchStarts(url)
    IN  IF starts = {} THEN NoAppleId
        ELSE LET i == SetMin(starts)
                 e == RunEnd(url, i + 28, NonSlashChars)
             IN  [storefront |-> SubSeq(url, i + 16, i + 17),
                  id |-> SubSeq(url, e + 2, RunEnd(url, e + 5, AlnumChars))]

\* url.match(/[?&]list=([a-zA-Z0-9_-]+)/).
parseYouTubeMusicUrl(url) ==
    LET IdChars == AlnumChars \cup {"_", "-"}
        starts == {i \in 1..Len(url) :
                      /\ url[i] \in {"?", "&"}
                      /\ OccursAt(url, P_list, i + 1)
                      /\ i + 6 <= Len(url)
                      /\ url[i + 6] \in IdChars}
    IN  IF starts = {} THEN NoId
        ELSE LET i == SetMin(starts)
             IN  SubSeq(url, i + 6, RunEnd(url, i + 6, IdChars))

\* ------------------------------------------------------------------ inputs
\* "open.spotify.com/playlist/37i9"
UrlSpotify ==
    <<"o", "p", "e", "n", ".", "s", "p", "o", "t", "i", "f", "y", ".", "c", "o", "m", "/", "p", "l", "a", "y", "l", "i", "s", "t", "/", "3", "7", "i", "9">>
\* "OPEN.SPOTIFY.COM/playlist/37i9"
UrlSpotifyUpper ==
    <<"O", "P", "E", "N", ".", "S", "P", "O", "T", "I", "F", "Y", ".", "C", "O", "M", "/", "p", "l", "a", "y", "l", "i", "s", "t", "/", "3", "7", "i", "9">>
\* "spotify.link/abc123"
UrlSpotifyLink ==
    <<"s", "p", "o", "t", "i", "f", "y", ".", "l", "i", "n", "k", "/", "a", "b", "c", "1", "2", "3">>
\* "music.apple.com/us/playlist/foo/pl.abc1"
UrlApple ==
    <<"m", "u", "s", "i", "c", ".", "a", "p", "p", "l", "e", ".", "c", "o", "m", "/", "u", "s", "/", "p", "l", "a", "y", "l", "i", "s", "t", "/", "f", "o", "o", "/", "p", "l", ".", "a", "b", "c", "1">>
\* "music.apple.com/usa/playlist/foo/pl.abc1"
UrlAppleBadStore ==
    <<"m", "u", "s", "i", "c", ".", "a", "p", "p", "l", "e", ".", "c", "o", "m", "/", "u", "s", "a", "/", "p", "l", "a", "y", "l", "i", "s", "t", "/", "f", "o", "o", "/", "p", "l", ".", "a", "b", "c", "1">>
\* "itunes.apple.com/us/playlist/foo/pl.abc1"
UrlITunes ==
    <<"i", "t", "u", "n", "e", "s", ".", "a", "p", "p", "l", "e", ".", "c", "o", "m", "/", "u", "s", "/", "p", "l", "a", "y", "l", "i", "s", "t", "/", "f", "o", "o", "/", "p", "l", ".", "a", "b", "c", "1">>
\* "music.youtube.com/playlist?list=PL_x-1"
UrlYouTube ==
    <<"m", "u", "s", "i", "c", ".", "y", "o", "u", "t", "u", "b", "e", ".", "c", "o", "m", "/", "p", "l", "a", "y", "l", "i", "s", "t", "?", "l", "i", "s", "t", "=", "P", "L", "_", "x", "-", "1">>
\* "youtube.com/playlist?v=1"
UrlYouTubeNoList ==
    <<"y", "o", "u", "t", "u", "b", "e", ".", "c", "o", "m", "/", "p", "l", "a", "y", "l", "i", "s", "t", "?", "v", "=", "1">>
\* "music.apple.com/pl.abc1?ref=spotify.com"
UrlAppleMentionsSpotify ==
    <<"m", "u", "s", "i", "c", ".", "a", "p", "p", "l", "e", ".", "c", "o", "m", "/", "p", "l", ".", "a", "b", "c", "1", "?", "r", "e", "f", "=", "s", "p", "o", "t", "i", "f", "y", ".", "c", "o", "m">>
\* "music.youtube.com/watch?list=PL1&ref=itunes.apple.com"
UrlYouTubeMentionsApple ==
    <<"m", "u", "s", "i", "c", ".", "y", "o", "u", "t", "u", "b", "e", ".", "c", "o", "m", "/", "w", "a", "t", "c", "h", "?", "l", "i", "s", "t", "=", "P", "L", "1", "&", "r", "e", "f", "=", "i", "t", "u", "n", "e", "s", ".", "a", "p", "p", "l", "e", ".", "c", "o", "m">>
\* "example.com/playlist/37i9"
UrlUnknown ==
    <<"e", "x", "a", "m", "p", "l", "e", ".", "c", "o", "m", "/", "p", "l", "a", "y", "l", "i", "s", "t", "/", "3", "7", "i", "9">>

\* The URLs importPlaylist is called with.
Urls ==
    {UrlSpotify, UrlSpotifyUpper, UrlSpotifyLink, UrlApple, UrlAppleBadStore,
     UrlITunes, UrlYouTube, UrlYouTubeNoList, UrlAppleMentionsSpotify,
     UrlYouTubeMentionsApple, UrlUnknown}

\* ------------------------------------------------------------- data values
\* JavaScript null / undefined for object-valued slots.
Null == [null |-> TRUE]
\* An optional string field that is not set (undefined).
Absent == "<undefined>"

\* Track fields as a platform payload carries them; "" stands for a field
\* that is empty or missing under every key the mapper reads.
RawTracks ==
    {[title |-> "Song A", artist |-> "Artist"],
     [title |-> "Song B", artist |-> "Artist"],
     [title |-> "", artist |-> "Artist"],
     [title |-> "Song A", artist |-> ""]}

RECURSIVE SeqsUpTo(_, _)
\* All sequences over S of length at most n.
SeqsUpTo(S, n) ==
    IF n = 0 THEN {<<>>}
    ELSE LET shorter == SeqsUpTo(S, n - 1)
         IN  shorter \cup {Append(s, x) : s \in {t \in shorter : Len(t) = n - 1}, x \in S}

RawTrackLists == SeqsUpTo(RawTracks, MaxTracks)

\* Playlist names a payload carries ("" : none given).
PayloadNames == {"", "Road Trip"}

\* A JSON slot that should hold a track array: missing, or an array.
ListSlots ==
    {[present |-> FALSE, items |-> <<>>]}
        \cup {[present |-> TRUE, items |-> l] : l \in RawTrackLists}

\* What one HTTP attempt can come back with: fetch() rejects ("throw"), a
\* non-2xx status ("notok"), a body that cannot be read as the expected
\* document ("badbody": json()/JSON.parse throws, no inline script, a value
\* of the wrong shape), or a document ("data").
HttpFailures ==
    {[kind |-> "throw"], [kind |-> "notok"], [kind |-> "badbody"]}

\* metaData of the SpotifyDown metadata endpoint.
MetaResponses ==
    HttpFailures \cup
    [kind : {"data"}, success : BOOLEAN, name : PayloadNames, list : ListSlots]

\* data of the scraper endpoint (data.tracks.items) and of the embed page's
\* inline script (data.playlist.tracks).
ListResponses ==
    HttpFailures \cup [kind : {"data"}, name : PayloadNames, list : ListSlots]

\* data of the Apple Music catalog endpoint; hasPlaylist: data.data?.[0].
AppleResponses ==
    HttpFailures \cup
    [kind : {"data"}, hasPlaylist : BOOLEAN, name : PayloadNames, list : ListSlots]

\* --------------------------------------------------------- Provider Fetchers
\* x || fallback on strings.
OrDefault(x, fallback) == IF x = "" \/ x = Absent THEN fallback ELSE x

\* A faulty variant of FilterValid: only the title is looked at.
FilterValidTitleOnly(tracks) ==
    SelectSeq(tracks, LAMBDA t : t.title # "" /\ t.title # Absent)

\* .filter((t) => t.title && t.artist)
FilterValid(tracks) ==
    SelectSeq(tracks, LAMBDA t : t.title \notin {"", Absent} /\ t.artist \notin {"", Absent})

\* The mappers of Source-A and Source-B copy the fields (album and duration
\* are carried along by the code and read by nothing modelled here).
MapTrack(t) == [title |-> t.title, artist |-> t.artist]

\* Source-C: artist: v.author || v.authorId || 'Unknown Artist'.
MapVideo(v) == [title |-> v.title, artist |-> OrDefault(v.artist, "Unknown Artist")]

\* .map(...) over a track array.
MapTracks(l) == [k \in 1..Len(l) |-> MapTrack(l[k])]
MapVideos(l) == [k \in 1..Len(l) |-> MapVideo(l[k])]

\* What strategy 1 reads from the answer of the metadata endpoint: the
\* entries of trackList that carry a title and an artist, when the request
\* went through and the document is marked success (else none).
ValidTrackList(resp) ==
    IF resp.kind = "data" /\ resp.success /\ resp.list.present
    THEN FilterValid(MapTracks(resp.list.items))
    ELSE <<>>

\* A faulty variant of SpotifyMetaReturn: the answer is given up as soon as one of its
\* entries lacks a title or an artist.
SpotifyMetaReturnAllOrNothing(resp) ==
    IF /\ resp.kind = "data"
       /\ resp.success
       /\ resp.list.present
       /\ Len(resp.list.items) > 0
       /\ Len(FilterValid(MapTracks(resp.list.items))) = Len(resp.list.items)
    THEN [name |-> OrDefault(resp.name, "Spotify Playlist"),
          tracks |-> FilterValid(MapTracks(resp.list.items))]
    ELSE Null

\* Strategy 1 of fetchSpotifyPlaylist: the returned value, or Null when
\* control falls through to strategy 2.
SpotifyMetaReturn(resp) ==
    IF /\ resp.kind = "data"
       /\ resp.success
       /\ resp.list.present
       /\ Len(resp.list.items) > 0
    THEN [name |-> OrDefault(resp.name, "Spotify Playlist"),
          tracks |-> FilterValid(MapTracks(resp.list.items))]
    ELSE Null

\* Strategy 2: the scraper endpoint.
SpotifyScraperReturn(resp) ==
    IF /\ resp.kind = "data"
       /\ resp.list.present
       /\ Len(resp.list.items) > 0
    THEN [name |-> OrDefault(resp.name, "Spotify Playlist"),
          tracks |-> FilterValid(MapTracks(resp.list.items))]
    ELSE Null

\* Strategy 3: the embed page; if (data.playlist?.tracks) holds of an empty
\* array too.
SpotifyEmbedReturn(resp) ==
    IF resp.kind = "data" /\ resp.list.present
    THEN [name |-> OrDefault(resp.name, "Spotify Playlist"),
          tracks |-> FilterValid(MapTracks(resp.list.items))]
    ELSE Null

\* fetchAppleMusicPlaylist: one request, no filter.
AppleReturn(resp) ==
    IF resp.kind = "data" /\ resp.hasPlaylist
    THEN [name |-> OrDefault(resp.name, "Apple Music Playlist"),
          tracks |-> MapTracks(resp.list.items)]
    ELSE Null

INVIDIOUS_INSTANCES ==
    <<"https://invidious.io.lol", "https://inv.nadeko.net", "https://invidious.nerdvpn.de">>

\* One iteration of fetchYouTubeMusicPlaylist: the returned value, or Null
\* when the loop continues with the next instance. (data.videos || []).
YouTubeInstanceReturn(resp) ==
    IF resp.kind = "data"
    THEN [name |-> OrDefault(resp.name, "YouTube Music Playlist"),
          tracks |-> MapVideos(resp.list.items)]
    ELSE Null

\* ------------------------------------------------------------ Track Matcher
\* A MusicTrack of the catalog: what matchTrack copies from it. (title,
\* artist, artistId, album, albumId and duration are copied the same way and
\* read by nothing modelled here.)
\* coverArt "": the catalog has no cover art for the track (an unset
\* coverArt is falsy in the same way).
CatalogTracks ==
    {[id |-> "k1", coverArt |-> ""],
     [id |-> "k2", coverArt |-> "cover-2"]}

\* What one catalog search can come back with: it rejects, it resolves to
\* null/undefined (or an object without tracks), or to {tracks: [...]}.
SearchOutcomes ==
    {[kind |-> "raise", tracks |-> <<>>], [kind |-> "null", tracks |-> <<>>]}
        \cup {[kind |-> "tracks", tracks |-> l] : l \in SeqsUpTo(CatalogTracks, MaxResults)}

QOBUZ_CONFIDENCE == 90
TIDAL_CONFIDENCE == 85

\* if (results?.tracks?.length), inside the try block of one backend.
HasResults(outcome) == outcome.kind = "tracks" /\ Len(outcome.tracks) > 0

\* const match = results.tracks[0]
FirstResult(outcome) == outcome.tracks[1]

\* The PlaylistTrack literal matchTrack returns (addedAt: Date.now() is left
\* out: nothing reads it).
PlaylistTrackOf(match, source, track, confidence) ==
    [id |-> match.id,
     source |-> source,
     coverArt |-> match.coverArt,
     originalTitle |-> track.title,
     originalArtist |-> track.artist,
     matchConfidence |-> confidence]

\* A faulty variant of QobuzReturn: the last element of the result list is taken.
QobuzReturnLastResult(track, outcome) ==
    IF HasResults(outcome)
    THEN PlaylistTrackOf(outcome.tracks[Len(outcome.tracks)], "qobuz", track,
                         QOBUZ_CONFIDENCE)
    ELSE Null

\* The value returned from the Qobuz try block (Null: nothing returned there).
QobuzReturn(track, outcome) ==
    IF HasResults(outcome)
    THEN PlaylistTrackOf(FirstResult(outcome), "qobuz", track, QOBUZ_CONFIDENCE)
    ELSE Null

\* The value matchTrack returns once the Tidal search has answered.
TidalReturn(track, outcome) ==
    IF HasResults(outcome)
    THEN PlaylistTrackOf(FirstResult(outcome), "tidal", track, TIDAL_CONFIDENCE)
    ELSE Null

\* A faulty variant of AfterQobuz: the catch block of the Qobuz search returns null.
AfterQobuzCatchReturns(outcome) ==
    IF HasResults(outcome) \/ outcome.kind = "raise" THEN "return" ELSE "tidal"

\* Where matchTrack goes after the Qobuz try/catch: it has returned from
\* inside the try block ("return"), or it goes on to the Tidal search.
AfterQobuz(outcome) == IF HasResults(outcome) THEN "return" ELSE "tidal"

\* How a catalog search ended, as the caller sees it: it raised or it
\* returned, and the first element of the returned list (Null: there is none).
SearchRecord(backend, outcome) ==
    [backend |-> backend,
     kind |-> IF outcome.kind = "raise" THEN "raise" ELSE "returned",
     first |-> IF Len(outcome.tracks) > 0 THEN outcome.tracks[1] ELSE Null]
NoSearch == [backend |-> "none", kind |-> "none", first |-> Null]

\* const query = `${track.title} ${track.artist}`
QueryOf(track) == <<track.title, " ", track.artist>>

\* ------------------------------------------------------ Import Orchestrator
\* An ImportProgress event (its message is left out).
ProgressEvent(stage, current, total) ==
    [stage |-> stage, current |-> current, total |-> total]

FetchingEvent == ProgressEvent("fetching", 0, 0)
\* Emitted once, before the loop.
MatchingStartEvent(total) == ProgressEvent("matching", 0, total)
\* A faulty variant of MatchingEvent: the 0-based index is reported.
MatchingEventZeroBased(i, total) == ProgressEvent("matching", i, total)
\* Emitted at the head of iteration i (0-based).
MatchingEvent(i, total) == ProgressEvent("matching", i + 1, total)
SavingEvent == ProgressEvent("saving", 0, 0)
\* A faulty variant of DoneEvent: the number of fetched tracks is reported as current.
DoneEventAllTracks(matched, total) == ProgressEvent("done", total, total)
DoneEvent(matched, total) == ProgressEvent("done", Len(matched), total)

ERR_UNSUPPORTED ==
    "Unsupported URL. Please use a Spotify, Apple Music, or YouTube Music playlist link."
ERR_INVALID_SPOTIFY == "Invalid Spotify playlist URL"
ERR_INVALID_APPLE == "Invalid Apple Music playlist URL"
ERR_INVALID_YOUTUBE == "Invalid YouTube Music playlist URL"
ERR_FETCH == "Could not fetch playlist. Make sure it's a public playlist."
ERR_NO_MATCH == "Could not match any tracks. Try a different playlist."

\* The ImportResult literals of importPlaylist, one per return statement.
UnsupportedUrlResult ==
    [success |-> FALSE, playlist |-> Null, totalTracks |-> 0, matchedTracks |-> 0,
     unmatchedTracks |-> <<>>, error |-> ERR_UNSUPPORTED]

\* A faulty variant of InvalidUrlResult: the Spotify message, whatever the platform.
InvalidUrlResultOneMessage(p) ==
    [success |-> FALSE, playlist |-> Null, totalTracks |-> 0, matchedTracks |-> 0,
     unmatchedTracks |-> <<>>, error |-> ERR_INVALID_SPOTIFY]

InvalidUrlResult(p) ==
    [success |-> FALSE, playlist |-> Null, totalTracks |-> 0, matchedTracks |-> 0,
     unmatchedTracks |-> <<>>,
     error |-> CASE p = "spotify" -> ERR_INVALID_SPOTIFY
                 [] p = "apple" -> ERR_INVALID_APPLE
                 [] OTHER -> ERR_INVALID_YOUTUBE]

\* A faulty variant of FetchFailedResult: the error message is forgotten.
FetchFailedResultNoError ==
    [success |-> FALSE, playlist |-> Null, totalTracks |-> 0, matchedTracks |-> 0,
     unmatchedTracks |-> <<>>, error |-> Absent]

FetchFailedResult ==
    [success |-> FALSE, playlist |-> Null, totalTracks |-> 0, matchedTracks |-> 0,
     unmatchedTracks |-> <<>>, error |-> ERR_FETCH]

\* A faulty variant of NoTracksMatchedResult: the literal of the earlier returns, copied.
NoTracksMatchedResultZeroed(total, unmatched) ==
    [success |-> FALSE, playlist |-> Null, totalTracks |-> 0, matchedTracks |-> 0,
     unmatchedTracks |-> <<>>, error |-> ERR_NO_MATCH]

NoTracksMatchedResult(total, unmatched) ==
    [success |-> FALSE, playlist |-> Null, totalTracks |-> total, matchedTracks |-> 0,
     unmatchedTracks |-> unmatched, error |-> ERR_NO_MATCH]

\* A faulty variant of SuccessResult: the playlist is left out of the result.
SuccessResultNoPlaylist(playlist, total, matched, unmatched) ==
    [success |-> TRUE, playlist |-> Null, totalTracks |-> total,
     matchedTracks |-> Len(matched), unmatchedTracks |-> unmatched, error |-> Absent]

SuccessResult(playlist, total, matched, unmatched) ==
    [success |-> TRUE, playlist |-> playlist, totalTracks |-> total,
     matchedTracks |-> Len(matched), unmatchedTracks |-> unmatched, error |-> Absent]

\* A faulty variant of FetchFailed: only the null check.
FetchFailedNullOnly(data) == data = Null

\* if (!playlistData || playlistData.tracks.length === 0)
FetchFailed(data) == data = Null \/ Len(data.tracks) = 0

\* if (matched) matchedTracks.push(matched)
PushMatched(matched, m) == IF m # Null THEN Append(matched, m) ELSE matched
\* A faulty variant of PushUnmatched: the else is missing.
PushUnmatchedAlways(unmatched, m, track) == Append(unmatched, track)
\* else unmatchedTracks.push(track)
PushUnmatched(unmatched, m, track) == IF m # Null THEN unmatched ELSE Append(unmatched, track)

\* A faulty variant of PauseFollows: a pause after every track, the last included.
PauseFollowsEveryTrack(i, n) == i < n

\* if (i < playlistData.tracks.length - 1): a pause follows iteration i.
PauseFollows(i, n) == i < n - 1

\* if (matchedTracks.length === 0)
NothingMatched(matched) == Len(matched) = 0

\* A faulty variant of CoverArtOf: the first cover art found in the matched list.
CoverArtOfAnyTrack(matched) ==
    LET withArt == {k \in 1..Len(matched) : matched[k].coverArt \notin {"", Absent}}
    IN  IF withArt = {} THEN Absent ELSE matched[SetMin(withArt)].coverArt

\* coverArt: matchedTracks[0]?.coverArt || undefined
CoverArtOf(matched) ==
    IF Len(matched) = 0 THEN Absent
    ELSE IF matched[1].coverArt \in {"", Absent} THEN Absent
    ELSE matched[1].coverArt

\* The playlist StorageService.createPlaylist(name) resolves to.
CreatedPlaylist(name) ==
    [id |-> "playlist-1", name |-> name, tracks |-> <<>>, coverArt |-> Absent,
     importSource |-> Null]

\* const updatedPlaylist = {...newPlaylist, tracks, coverArt, importSource}
UpdatedPlaylistOf(newPlaylist, matched, p, id, data) ==
    [newPlaylist EXCEPT
        !.tracks = matched,
        !.coverArt = CoverArtOf(matched),
        !.importSource = [platform |-> p, originalId |-> id, originalName |-> data.name]]

\* No side-by-side invocations: the state of SpecPair is not in use.
PairIdle == [scripts |-> <<>>, loc |-> <<>>, lists |-> <<>>]

\* ------------------------------------------------------------------- state
VARIABLES
    url,              \* the argument of importPlaylist
    pc,               \* where the invocation stands (the await it is at)
    platform,         \* const platform
    originalId,       \* let originalId
    playlistData,     \* let playlistData
    instance,         \* position of the for..of loop over INVIDIOUS_INSTANCES
    i,                \* the index of the matching loop
    matchedTracks,    \* const matchedTracks
    unmatchedTracks,  \* const unmatchedTracks
    updatedPlaylist,  \* const updatedPlaylist
    result,           \* the ImportResult the promise resolved to (Null: none)
    thrown,           \* the promise was rejected
    progress,         \* the events handed to onProgress, in order
    requests,         \* the HTTP requests issued by the fetcher, in order
    searches,         \* the catalog searches issued, in order
    lastSearch,       \* how the most recent catalog search ended
    pauses,           \* the number of 200 ms pauses taken
    createCalls,      \* the calls of StorageService.createPlaylist
    updateCalls,      \* the calls of StorageService.updatePlaylist
    metaTracks,       \* the valid tracks the metadata endpoint answered with
    pair              \* two invocations running side by side (see SpecPair)

vars ==
    <<url, pc, platform, originalId, playlistData, instance, i, matchedTracks,
      unmatchedTracks, updatedPlaylist, result, thrown, progress, requests,
      searches, lastSearch, pauses, createCalls, updateCalls, metaTracks, pair>>

Init ==
    /\ url \in Urls
    /\ pc = "start"
    /\ platform = "unset"
    /\ originalId = NoId
    /\ playlistData = Null
    /\ instance = 1
    /\ i = 0
    /\ matchedTracks = <<>>
    /\ unmatchedTracks = <<>>
    /\ updatedPlaylist = Null
    /\ result = Null
    /\ thrown = FALSE
    /\ progress = <<>>
    /\ requests = <<>>
    /\ searches = <<>>
    /\ lastSearch = NoSearch
    /\ pauses = 0
    /\ createCalls = <<>>
    /\ updateCalls = <<>>
    /\ metaTracks = <<>>
    /\ pair = PairIdle

\* The identifier the platform's parser extracts.
ParsedId(p, u) ==
    CASE p = "spotify" -> parseSpotifyUrl(u)
      [] p = "apple" -> parseAppleMusicUrl(u).id
      [] OTHER -> parseYouTubeMusicUrl(u)

\* The first await of the fetcher the switch dispatches to.
FetcherEntry(p) ==
    CASE p = "spotify" -> "spotifyMeta"
      [] p = "apple" -> "apple"
      [] OTHER -> "youtube"

\* importPlaylist up to its first await: classify, emit 'fetching', parse
\* the identifier, call the fetcher.
ImportStart ==
    /\ pc = "start"
    /\ LET p == detectPlatform(url)
           id == ParsedId(p, url)
       IN  /\ platform' = p
           /\ IF p = "unknown"
              THEN /\ result' = UnsupportedUrlResult
                   /\ pc' = "done"
                   /\ UNCHANGED <<progress, originalId>>
              ELSE /\ progress' = Append(progress, FetchingEvent)
                   /\ IF id = NoId
                      THEN /\ result' = InvalidUrlResult(p)
                           /\ pc' = "done"
                           /\ UNCHANGED originalId
                      ELSE /\ originalId' = id
                           /\ pc' = FetcherEntry(p)
                           /\ UNCHANGED result
    /\ UNCHANGED <<url, pair, metaTracks, lastSearch, playlistData, instance, i, matchedTracks, unmatchedTracks,
                   updatedPlaylist, thrown, requests, searches, pauses, createCalls,
                   updateCalls>>

\* What every fetcher step leaves alone.
FetcherFrame ==
    UNCHANGED <<url, pair, lastSearch, platform, originalId, i, matchedTracks,
                unmatchedTracks, updatedPlaylist, result, thrown, progress, searches,
                pauses, createCalls, updateCalls>>

\* fetchSpotifyPlaylist, strategy 1: the metadata endpoint.
SpotifyMetadata ==
    /\ pc = "spotifyMeta"
    /\ \E resp \in MetaResponses :
        LET r == SpotifyMetaReturn(resp)
        IN  /\ requests' = Append(requests, "api.spotifydown.com")
            /\ IF r # Null
               THEN playlistData' = r /\ pc' = "fetched"
               ELSE playlistData' = playlistData /\ pc' = "spotifyScraper"
            /\ metaTracks' = ValidTrackList(resp)
    /\ UNCHANGED instance
    /\ FetcherFrame

\* fetchSpotifyPlaylist, strategy 2: the scraper endpoint.
SpotifyScraper ==
    /\ pc = "spotifyScraper"
    /\ \E resp \in ListResponses :
        LET r == SpotifyScraperReturn(resp)
        IN  /\ requests' = Append(requests, "spotify-scraper.p.rapidapi.com")
            /\ IF r # Null
               THEN playlistData' = r /\ pc' = "fetched"
               ELSE playlistData' = playlistData /\ pc' = "spotifyEmbed"
    /\ UNCHANGED <<instance, metaTracks>>
    /\ FetcherFrame

\* fetchSpotifyPlaylist, strategy 3: the embed page; then return null.
SpotifyEmbed ==
    /\ pc = "spotifyEmbed"
    /\ \E resp \in ListResponses :
        /\ requests' = Append(requests, "open.spotify.com/embed")
        /\ playlistData' = SpotifyEmbedReturn(resp)
        /\ pc' = "fetched"
    /\ UNCHANGED <<instance, metaTracks>>
    /\ FetcherFrame

\* fetchAppleMusicPlaylist: its one request.
AppleFetch ==
    /\ pc = "apple"
    /\ \E resp \in AppleResponses :
        /\ requests' = Append(requests, "music.apple.com/api")
        /\ playlistData' = AppleReturn(resp)
        /\ pc' = "fetched"
    /\ UNCHANGED <<instance, metaTracks>>
    /\ FetcherFrame

\* A faulty variant of NextInstance: the instance that failed is tried again.
NextInstanceRetry(k) == k

\* for (const instance of INVIDIOUS_INSTANCES): the step to the next element.
NextInstance(k) == k + 1

\* fetchYouTubeMusicPlaylist: one iteration of the loop over the instances.
YouTubeInstance ==
    /\ pc = "youtube"
    /\ \E resp \in ListResponses :
        LET r == YouTubeInstanceReturn(resp)
        IN  /\ requests' = Append(requests, INVIDIOUS_INSTANCES[instance])
            /\ IF r # Null
               THEN playlistData' = r /\ pc' = "fetched" /\ instance' = instance
               ELSE /\ playlistData' = playlistData
                    /\ IF instance < Len(INVIDIOUS_INSTANCES)
                       THEN instance' = NextInstance(instance) /\ pc' = "youtube"
                       ELSE instance' = instance /\ pc' = "fetched"
    /\ UNCHANGED metaTracks
    /\ FetcherFrame

\* After the fetcher's promise resolved: the emptiness check, then the head
\* of the matching stage up to the loop.
AfterFetch ==
    /\ pc = "fetched"
    /\ IF FetchFailed(playlistData)
       THEN /\ result' = FetchFailedResult
            /\ pc' = "done"
            /\ UNCHANGED progress
       ELSE /\ progress' = Append(progress, MatchingStartEvent(Len(playlistData.tracks)))
            /\ pc' = "loop"
            /\ UNCHANGED result
    /\ UNCHANGED <<url, pair, metaTracks, lastSearch, platform, originalId, playlistData, instance, i, matchedTracks,
                   unmatchedTracks, updatedPlaylist, thrown, requests, searches,
                   pauses, createCalls, updateCalls>>

\* A faulty variant of LoopContinues: the loop stops one track early.
LoopContinuesStopsEarly(k, n) == k < n - 1

\* for (...; i < playlistData.tracks.length; ...)
LoopContinues(k, n) == k < n

\* The head of one iteration: the progress event, then matchTrack up to its
\* first await.
MatchNextTrack ==
    /\ pc = "loop"
    /\ LoopContinues(i, Len(playlistData.tracks))
    /\ progress' = Append(progress, MatchingEvent(i, Len(playlistData.tracks)))
    /\ pc' = "qobuz"
    /\ UNCHANGED <<url, pair, metaTracks, lastSearch, platform, originalId, playlistData, instance, i, matchedTracks,
                   unmatchedTracks, updatedPlaylist, result, thrown, requests,
                   searches, pauses, createCalls, updateCalls>>

\* What the steps of matchTrack leave alone.
MatchFrame ==
    UNCHANGED <<url, pair, metaTracks, platform, originalId, playlistData, instance, updatedPlaylist,
                result, thrown, progress, requests, pauses, createCalls, updateCalls>>

\* The rest of the iteration once matchTrack has returned m: push, then
\* either wait 200 ms or go to the next iteration.
TrackSettled(track, m) ==
    /\ matchedTracks' = PushMatched(matchedTracks, m)
    /\ unmatchedTracks' = PushUnmatched(unmatchedTracks, m, track)
    /\ IF PauseFollows(i, Len(playlistData.tracks))
       THEN pc' = "pause" /\ i' = i
       ELSE pc' = "loop" /\ i' = i + 1

\* matchTrack: the Qobuz search and its try/catch.
SearchQobuz ==
    /\ pc = "qobuz"
    /\ \E outcome \in SearchOutcomes :
        LET track == playlistData.tracks[i + 1]
        IN  /\ searches' = Append(searches, [backend |-> "qobuz", query |-> QueryOf(track)])
            /\ lastSearch' = SearchRecord("qobuz", outcome)
            /\ IF AfterQobuz(outcome) = "return"
               THEN TrackSettled(track, QobuzReturn(track, outcome))
               ELSE /\ pc' = "tidal"
                    /\ UNCHANGED <<i, matchedTracks, unmatchedTracks>>
    /\ MatchFrame

\* matchTrack: the Tidal search and its try/catch, then return null.
SearchTidal ==
    /\ pc = "tidal"
    /\ \E outcome \in SearchOutcomes :
        LET track == playlistData.tracks[i + 1]
        IN  /\ searches' = Append(searches, [backend |-> "tidal", query |-> QueryOf(track)])
            /\ lastSearch' = SearchRecord("tidal", outcome)
            /\ TrackSettled(track, TidalReturn(track, outcome))
    /\ MatchFrame

\* await new Promise(r => setTimeout(r, 200)), then i++.
Pause ==
    /\ pc = "pause"
    /\ pauses' = pauses + 1
    /\ i' = i + 1
    /\ pc' = "loop"
    /\ UNCHANGED <<url, pair, metaTracks, lastSearch, platform, originalId, playlistData, instance, matchedTracks,
                   unmatchedTracks, updatedPlaylist, result, thrown, progress,
                   requests, searches, createCalls, updateCalls>>

\* After the loop: the "nothing matched" return, or the head of the saving
\* stage up to the call of createPlaylist.
FinishMatching ==
    /\ pc = "loop"
    /\ ~LoopContinues(i, Len(playlistData.tracks))
    /\ IF NothingMatched(matchedTracks)
       THEN /\ result' = NoTracksMatchedResult(Len(playlistData.tracks), unmatchedTracks)
            /\ pc' = "done"
            /\ UNCHANGED progress
       ELSE /\ progress' = Append(progress, SavingEvent)
            /\ pc' = "create"
            /\ UNCHANGED result
    /\ UNCHANGED <<url, pair, metaTracks, lastSearch, platform, originalId, playlistData, instance, i, matchedTracks,
                   unmatchedTracks, updatedPlaylist, thrown, requests, searches,
                   pauses, createCalls, updateCalls>>

\* await StorageService.createPlaylist(playlistData.name): it resolves, or it
\* rejects and nothing catches the rejection.
CreatePlaylist ==
    /\ pc = "create"
    /\ \E ok \in BOOLEAN :
        /\ createCalls' = Append(createCalls, [name |-> playlistData.name, ok |-> ok])
        /\ IF ok
           THEN /\ updatedPlaylist' =
                       UpdatedPlaylistOf(CreatedPlaylist(playlistData.name), matchedTracks,
                                         platform, originalId, playlistData)
                /\ pc' = "update"
                /\ UNCHANGED thrown
           ELSE /\ thrown' = TRUE
                /\ pc' = "done"
                /\ UNCHANGED updatedPlaylist
    /\ UNCHANGED <<url, pair, metaTracks, lastSearch, platform, originalId, playlistData, instance, i, matchedTracks,
                   unmatchedTracks, result, progress, requests, searches, pauses,
                   updateCalls>>

\* await StorageService.updatePlaylist(updatedPlaylist), then 'done' and the
\* success result; a rejection is not caught.
UpdatePlaylist ==
    /\ pc = "update"
    /\ \E ok \in BOOLEAN :
        /\ updateCalls' = Append(updateCalls, [playlist |-> updatedPlaylist, ok |-> ok])
        /\ IF ok
           THEN /\ progress' =
                       Append(progress, DoneEvent(matchedTracks, Len(playlistData.tracks)))
                /\ result' = SuccessResult(updatedPlaylist, Len(playlistData.tracks),
                                           matchedTracks, unmatchedTracks)
                /\ UNCHANGED thrown
           ELSE /\ thrown' = TRUE
                /\ UNCHANGED <<progress, result>>
        /\ pc' = "done"
    /\ UNCHANGED <<url, pair, metaTracks, lastSearch, platform, originalId, playlistData, instance, i, matchedTracks,
                   unmatchedTracks, updatedPlaylist, requests, searches, pauses,
                   createCalls>>

Next ==
    \/ ImportStart
    \/ SpotifyMetadata
    \/ SpotifyScraper
    \/ SpotifyEmbed
    \/ AppleFetch
    \/ YouTubeInstance
    \/ AfterFetch
    \/ MatchNextTrack
    \/ SearchQobuz
    \/ SearchTidal
    \/ Pause
    \/ FinishMatching
    \/ CreatePlaylist
    \/ UpdatePlaylist

Spec == Init /\ [][Next]_vars

\* Every awaited call settles: it resolves or it rejects. So a step that can
\* be taken is taken.
FairSpec == Spec /\ WF_vars(Next)

\* ---------------------------------------------- two invocations side by side
\* importPlaylist is async: between two awaits of one invocation, any number
\* of steps of another invocation may run. SpecPair runs two invocations of
\* importPlaylist on YouTube Music playlists, their steps interleaved in
\* every possible way. What the collaborators answer to an invocation is
\* fixed beforehand in its script, so that the same invocation can be run
\* alone on the same answers.
Invocations == {1, 2}

\* How the catalog answers for one track: Qobuz has it, only Tidal has it,
\* neither has it.
Answers == {"qobuz", "tidal", "none"}

\* A script: whether the Invidious instances are down, and the catalog's
\* answer for every video of the playlist.
Scripts ==
    {[down |-> TRUE, answers |-> <<>>]}
        \cup {[down |-> FALSE, answers |-> a] : a \in SeqsUpTo(Answers, MaxTracks)}

\* The videos of the playlist invocation k imports (the two playlists
\* differ, track by track).
ScriptedVideos(sc, k) ==
    [j \in 1..Len(sc.answers) |->
        IF (j + k) % 2 = 0
        THEN [title |-> "Song A", artist |-> "Artist"]
        ELSE [title |-> "Song B", artist |-> ""]]

\* What an Invidious instance answers under a script.
ScriptedResponse(sc, k) ==
    IF sc.down
    THEN [kind |-> "notok"]
    ELSE [kind |-> "data", name |-> "Road Trip",
          list |-> [present |-> TRUE, items |-> ScriptedVideos(sc, k)]]

\* What a catalog search for track j answers under a script.
ScriptedOutcome(sc, backend, j) ==
    IF sc.answers[j] = backend
    THEN [kind |-> "tracks",
          tracks |-> <<[id |-> IF backend = "qobuz" THEN "k1" ELSE "k2",
                        coverArt |-> "cover-2"]>>]
    ELSE IF backend = "qobuz" THEN [kind |-> "raise", tracks |-> <<>>]
    ELSE [kind |-> "null", tracks |-> <<>>]

\* The bindings of one invocation (let / const of importPlaylist and of the
\* fetcher), and the number of steps it has taken.
LocalInit ==
    [pc |-> "start", playlistData |-> Null, instance |-> 1, i |-> 0,
     updatedPlaylist |-> Null, result |-> Null, progress |-> <<>>, steps |-> 0]

\* const matchedTracks = []; const unmatchedTracks = [];
EmptyLists == [matchedTracks |-> <<>>, unmatchedTracks |-> <<>>]

\* A faulty variant of ListScope: the two arrays are declared once, at module level.
ListScopeModule(k) == 1

\* The two arrays are declared in the body of importPlaylist: every
\* invocation has its own.
ListScope(k) == k

\* The playlist id of the pair's URLs.
PairPlaylistId == <<"P", "L", "1">>

\* After the fetcher returned data: the emptiness check, the two arrays and
\* the first 'matching' event.
AfterFetchStep(l, ls, data) ==
    IF FetchFailed(data)
    THEN [loc |-> [l EXCEPT !.pc = "done", !.playlistData = data,
                            !.result = FetchFailedResult],
          lists |-> ls]
    ELSE [loc |-> [l EXCEPT !.pc = "loop", !.playlistData = data,
                            !.progress = Append(@, MatchingStartEvent(Len(data.tracks)))],
          lists |-> EmptyLists]

\* The rest of an iteration once matchTrack has returned m.
SettledStep(l, ls, track, m) ==
    [loc |-> IF PauseFollows(l.i, Len(l.playlistData.tracks))
             THEN [l EXCEPT !.pc = "pause"]
             ELSE [l EXCEPT !.pc = "loop", !.i = @ + 1],
     lists |-> [matchedTracks |-> PushMatched(ls.matchedTracks, m),
                unmatchedTracks |-> PushUnmatched(ls.unmatchedTracks, m, track)]]

\* One step of invocation k, from one await to the next: the bindings l and
\* the arrays ls it reads, the bindings and arrays it leaves.
StepFrom(l, ls, sc, k) ==
    CASE l.pc = "start" ->
            [loc |-> [l EXCEPT !.pc = "youtube", !.progress = Append(@, FetchingEvent)],
             lists |-> ls]
      [] l.pc = "youtube" ->
            LET r == YouTubeInstanceReturn(ScriptedResponse(sc, k))
            IN  IF r # Null THEN AfterFetchStep(l, ls, r)
                ELSE IF l.instance < Len(INVIDIOUS_INSTANCES)
                THEN [loc |-> [l EXCEPT !.instance = NextInstance(@)], lists |-> ls]
                ELSE AfterFetchStep(l, ls, Null)
      [] l.pc = "loop" ->
            LET n == Len(l.playlistData.tracks)
            IN  [loc |->
                    IF LoopContinues(l.i, n)
                    THEN [l EXCEPT !.pc = "qobuz",
                                   !.progress = Append(@, MatchingEvent(l.i, n))]
                    ELSE IF NothingMatched(ls.matchedTracks)
                    THEN [l EXCEPT !.pc = "done",
                                   !.result = NoTracksMatchedResult(n, ls.unmatchedTracks)]
                    ELSE [l EXCEPT !.pc = "create",
                                   !.progress = Append(@, SavingEvent)],
                 lists |-> ls]
      [] l.pc = "qobuz" ->
            LET track == l.playlistData.tracks[l.i + 1]
                outcome == ScriptedOutcome(sc, "qobuz", l.i + 1)
            IN  IF AfterQobuz(outcome) = "return"
                THEN SettledStep(l, ls, track, QobuzReturn(track, outcome))
                ELSE [loc |-> [l EXCEPT !.pc = "tidal"], lists |-> ls]
      [] l.pc = "tidal" ->
            LET track == l.playlistData.tracks[l.i + 1]
            IN  SettledStep(l, ls, track,
                            TidalReturn(track, ScriptedOutcome(sc, "tidal", l.i + 1)))
      [] l.pc = "pause" ->
            [loc |-> [l EXCEPT !.pc = "loop", !.i = @ + 1], lists |-> ls]
      [] l.pc = "create" ->
            [loc |-> [l EXCEPT
                        !.pc = "update",
                        !.updatedPlaylist =
                            UpdatedPlaylistOf(CreatedPlaylist(l.playlistData.name),
                                              ls.matchedTracks, "youtube", PairPlaylistId,
                                              l.playlistData)],
             lists |-> ls]
      [] l.pc = "update" ->
            LET n == Len(l.playlistData.tracks)
            IN  [loc |-> [l EXCEPT
                            !.pc = "done",
                            !.progress = Append(@, DoneEvent(ls.matchedTracks, n)),
                            !.result = SuccessResult(l.updatedPlaylist, n, ls.matchedTracks,
                                                     ls.unmatchedTracks)],
                 lists |-> ls]

\* StepFrom, with the step counted.
ImportStep(l, ls, sc, k) ==
    LET next == StepFrom(l, ls, sc, k)
    IN  [loc |-> [next.loc EXCEPT !.steps = @ + 1], lists |-> next.lists]

\* What is not part of the pair.
ImportVars ==
    <<url, pc, platform, originalId, playlistData, instance, i, matchedTracks,
      unmatchedTracks, updatedPlaylist, result, thrown, progress, requests,
      searches, lastSearch, pauses, createCalls, updateCalls, metaTracks>>

PairInit ==
    /\ url = UrlUnknown
    /\ pc = "start"
    /\ platform = "unset"
    /\ originalId = NoId
    /\ playlistData = Null
    /\ instance = 1
    /\ i = 0
    /\ matchedTracks = <<>>
    /\ unmatchedTracks = <<>>
    /\ updatedPlaylist = Null
    /\ result = Null
    /\ thrown = FALSE
    /\ progress = <<>>
    /\ requests = <<>>
    /\ searches = <<>>
    /\ lastSearch = NoSearch
    /\ pauses = 0
    /\ createCalls = <<>>
    /\ updateCalls = <<>>
    /\ metaTracks = <<>>
    /\ pair \in {[scripts |-> <<a, b>>,
                  loc |-> <<LocalInit, LocalInit>>,
                  lists |-> <<EmptyLists, EmptyLists>>] : a, b \in Scripts}

\* Invocation k stands at `at` and takes its step there.
Takes(k, at) ==
    /\ pair.loc[k].pc = at
    /\ LET next == ImportStep(pair.loc[k], pair.lists[ListScope(k)], pair.scripts[k], k)
       IN  pair' = [pair EXCEPT !.loc[k] = next.loc, !.lists[ListScope(k)] = next.lists]
    /\ UNCHANGED ImportVars

PairImportStart == \E k \in Invocations : Takes(k, "start")
PairYouTubeInstance == \E k \in Invocations : Takes(k, "youtube")
PairLoopHead == \E k \in Invocations : Takes(k, "loop")
PairSearchQobuz == \E k \in Invocations : Takes(k, "qobuz")
PairSearchTidal == \E k \in Invocations : Takes(k, "tidal")
PairPause == \E k \in Invocations : Takes(k, "pause")
PairCreatePlaylist == \E k \in Invocations : Takes(k, "create")
PairUpdatePlaylist == \E k \in Invocations : Takes(k, "update")

PairNext ==
    \/ PairImportStart
    \/ PairYouTubeInstance
    \/ PairLoopHead
    \/ PairSearchQobuz
    \/ PairSearchTidal
    \/ PairPause
    \/ PairCreatePlaylist
    \/ PairUpdatePlaylist

SpecPair == PairInit /\ [][PairNext]_vars

\* ================================================================= claims
Last(s) == s[Len(s)]

\* The events of one stage, in the order they were emitted.
StageEvents(stage) == SelectSeq(progress, LAMBDA e : e.stage = stage)

\* The fetcher handed over at least one track.
HasTracks == playlistData # Null /\ Len(playlistData.tracks) > 0
\* N: the number of fetched tracks.
NumTracks == IF playlistData = Null THEN 0 ELSE Len(playlistData.tracks)

\* The run went through the whole matching loop.
MatchingOver == HasTracks /\ pc \in {"create", "update", "done"}

\* The track whose matchTrack call returned last, while the run stands
\* between two iterations.
BetweenTracks == pc = "pause" \/ (pc = "loop" /\ i >= 1)
SettledIndex == IF pc = "pause" THEN i + 1 ELSE i
LastSettled == playlistData.tracks[SettledIndex]

\* A persistence call was rejected.
StorageFailed ==
    \/ (createCalls # <<>> /\ ~Last(createCalls).ok)
    \/ (updateCalls # <<>> /\ ~Last(updateCalls).ok)

TaxonomyErrors ==
    {ERR_UNSUPPORTED, ERR_INVALID_SPOTIFY, ERR_INVALID_APPLE, ERR_INVALID_YOUTUBE,
     ERR_FETCH, ERR_NO_MATCH}

\* C1 as stated: once the matching loop is over, the matching-stage events
\* are exactly N events with current = 1, 2, ..., N.
C1_MatchingEventsOneToN ==
    MatchingOver =>
        LET ev == StageEvents("matching")
        IN  /\ Len(ev) = NumTracks
            /\ \A k \in 1..Len(ev) : ev[k].current = k

\* C1 amended: the matching-stage events are, in order, one event with
\* current 0 emitted before the loop and then one event per track with
\* current 1, 2, ..., each with total N; once the loop is over there are
\* exactly N + 1 of them.
C1_MatchingEventsZeroToN ==
    LET ev == StageEvents("matching")
    IN  /\ \A k \in 1..Len(ev) : ev[k].current = k - 1 /\ ev[k].total = NumTracks
        /\ pc \in {"start", "spotifyMeta", "spotifyScraper", "spotifyEmbed", "apple",
                   "youtube", "fetched"} => Len(ev) = 0
        /\ pc \in {"qobuz", "tidal", "pause"} => Len(ev) = i + 2
        /\ pc = "loop" => Len(ev) = i + 1
        /\ MatchingOver => Len(ev) = NumTracks + 1

C1_Witness ==
    /\ MatchingOver
    /\ NumTracks = 2
    /\ Len(StageEvents("matching")) = 3

\* C2 as stated: importPlaylist never raises; it ends with an ImportResult,
\* and a failed one carries one of the four taxonomy errors.
C2_NeverRaises ==
    /\ ~thrown
    /\ pc = "done" =>
          /\ result # Null
          /\ (IF result = Null THEN TRUE
              ELSE ~result.success => result.error \in TaxonomyErrors)

\* C2 amended: whatever the network fetches and the catalog searches do,
\* the call ends with an ImportResult whose failure is one of the four
\* taxonomy errors; it raises exactly when createPlaylist or updatePlaylist
\* is rejected, and then returns no result.
C2_RaisesOnlyFromStorage ==
    /\ thrown <=> StorageFailed
    /\ thrown => pc = "done" /\ result = Null
    /\ (pc = "done" /\ ~thrown) =>
          /\ result # Null
          /\ (IF result = Null THEN TRUE
              ELSE ~result.success => result.error \in TaxonomyErrors)
    /\ pc # "done" => result = Null

C2_Witness ==
    /\ pc = "done"
    /\ ~thrown
    /\ Len(requests) = 3
    /\ lastSearch.kind = "raise"
    /\ result # Null
    /\ result.error = ERR_NO_MATCH

\* C3: in every returned ImportResult, success holds iff at least one track
\* matched and updatePlaylist completed; a failed result has a non-empty
\* error and no playlist, a successful one a playlist and no error.
C3_SuccessIffMatchedAndPersisted ==
    result # Null =>
        /\ result.success <=>
              /\ Len(matchedTracks) >= 1
              /\ updateCalls # <<>>
              /\ Last(updateCalls).ok
        /\ ~result.success =>
              /\ result.error \notin {"", Absent}
              /\ result.playlist = Null
        /\ result.success =>
              /\ result.playlist # Null
              /\ result.error = Absent

C3_Witness ==
    /\ result # Null
    /\ result.success
    /\ Len(unmatchedTracks) >= 1
    /\ Last(updateCalls).ok

\* C4 as stated: fetchSpotifyPlaylist tries metadata endpoint, scraper
\* endpoint, embed page in that order and stops at the first strategy whose
\* returned list has at least one track: a non-null result has a track, and
\* null is returned only after all three strategies were tried.
C4_SpotifyStopsAtFirstNonEmpty ==
    (platform = "spotify" /\ pc = "fetched") =>
        /\ requests = SubSeq(<<"api.spotifydown.com", "spotify-scraper.p.rapidapi.com",
                               "open.spotify.com/embed">>, 1, Len(requests))
        /\ playlistData # Null => Len(playlistData.tracks) >= 1
        /\ playlistData = Null => Len(requests) = 3

\* C5 as stated: fetchYouTubeMusicPlaylist tries the instances in list
\* order and returns the first answer with a non-empty track list; an
\* instance answering with zero tracks is skipped; null only after every
\* instance was tried.
C5_YouTubeFirstNonEmptyInstance ==
    (platform = "youtube" /\ pc = "fetched") =>
        /\ requests = SubSeq(INVIDIOUS_INSTANCES, 1, Len(requests))
        /\ playlistData # Null => Len(playlistData.tracks) >= 1
        /\ playlistData = Null => Len(requests) = Len(INVIDIOUS_INSTANCES)

\* C6: Qobuz is searched first; a non-empty Qobuz list gives a match built
\* from its first element with source qobuz and confidence 90, and Tidal is
\* not searched for that track; otherwise Tidal is searched and a non-empty
\* list gives a match from its first element with source tidal and
\* confidence 85. No other (source, confidence) pair occurs, and
\* originalTitle/originalArtist are the imported track's.
C6_MatchTrackPriority ==
    /\ \A k \in 1..Len(matchedTracks) :
          <<matchedTracks[k].source, matchedTracks[k].matchConfidence>>
              \in {<<"qobuz", 90>>, <<"tidal", 85>>}
    /\ pc = "tidal" =>
          /\ lastSearch.backend = "qobuz"
          /\ lastSearch.first = Null
          /\ Last(searches).backend = "qobuz"
    /\ pc = "qobuz" => (searches = <<>> \/ lastSearch.first # Null
                                        \/ lastSearch.backend = "tidal")
    /\ (BetweenTracks /\ lastSearch.first # Null) =>
          /\ Last(searches).backend = lastSearch.backend
          /\ lastSearch.backend = "tidal" =>
                searches[Len(searches) - 1] =
                    [backend |-> "qobuz", query |-> QueryOf(LastSettled)]
          /\ Last(searches).query = QueryOf(LastSettled)
          /\ Last(matchedTracks) =
                [id |-> lastSearch.first.id,
                 source |-> lastSearch.backend,
                 coverArt |-> lastSearch.first.coverArt,
                 originalTitle |-> LastSettled.title,
                 originalArtist |-> LastSettled.artist,
                 matchConfidence |-> IF lastSearch.backend = "qobuz" THEN 90 ELSE 85]

C6_Witness ==
    /\ pc = "loop"
    /\ i = 2
    /\ Len(matchedTracks) = 2
    /\ matchedTracks[1].source = "qobuz"
    /\ matchedTracks[2].source = "tidal"
    /\ matchedTracks[1].originalTitle # matchedTracks[2].originalTitle

\* C7: a catalog search that raises counts as one that found nothing: after
\* a Qobuz search that raised or found nothing the Tidal search is made;
\* when Tidal raises or finds nothing too, the track goes to
\* unmatchedTracks and the loop goes on; nothing is raised out of the
\* matching stage, and every fetched track is processed.
C7_RaiseCountsAsNoResult ==
    /\ (lastSearch.backend = "qobuz" /\ lastSearch.first = Null) => pc = "tidal"
    /\ (BetweenTracks /\ lastSearch.first = Null) =>
          /\ lastSearch.backend = "tidal"
          /\ Last(searches).backend = "tidal"
          /\ unmatchedTracks # <<>>
          /\ Last(unmatchedTracks) = LastSettled
    /\ pc \in {"loop", "qobuz", "tidal", "pause"} => ~thrown /\ result = Null
    /\ BetweenTracks => Len(matchedTracks) + Len(unmatchedTracks) = SettledIndex
    /\ MatchingOver => Len(matchedTracks) + Len(unmatchedTracks) = NumTracks

C7_Witness ==
    /\ pc = "tidal"
    /\ lastSearch.kind = "raise"
    /\ i = 1
    /\ Len(unmatchedTracks) = 1

\* C8: when the selected fetcher returns null or an empty track list, the
\* call returns success false with a non-empty error, zero counts and no
\* unmatched tracks, and nothing later runs: no catalog search, no
\* createPlaylist, no updatePlaylist, no matching, saving or done event.
C8_EmptyFetchStopsTheRun ==
    (pc = "done" /\ originalId # NoId /\ ~HasTracks) =>
        /\ result # Null
        /\ (IF result = Null THEN TRUE
            ELSE /\ ~result.success
                 /\ result.error \notin {"", Absent}
                 /\ result.totalTracks = 0
                 /\ result.matchedTracks = 0
                 /\ result.unmatchedTracks = <<>>)
        /\ searches = <<>>
        /\ createCalls = <<>>
        /\ updateCalls = <<>>
        /\ \A k \in 1..Len(progress) : progress[k].stage = "fetching"

C8_Witness ==
    /\ pc = "done"
    /\ playlistData # Null
    /\ Len(playlistData.tracks) = 0
    /\ requests # <<>>
    /\ result # Null

\* C9: when N >= 1 tracks were fetched and none matched, the call returns
\* success false, matchedTracks 0, totalTracks N and all N tracks in
\* unmatchedTracks, and nothing is persisted: no createPlaylist, no
\* updatePlaylist, no saving or done event.
C9_NothingMatchedNothingSaved ==
    (pc = "done" /\ HasTracks /\ Len(matchedTracks) = 0) =>
        /\ result # Null
        /\ (IF result = Null THEN TRUE
            ELSE /\ ~result.success
                 /\ result.matchedTracks = 0
                 /\ result.totalTracks = NumTracks
                 /\ result.unmatchedTracks = playlistData.tracks)
        /\ createCalls = <<>>
        /\ updateCalls = <<>>
        /\ StageEvents("saving") = <<>>
        /\ StageEvents("done") = <<>>

C9_Witness ==
    /\ pc = "done"
    /\ NumTracks = 2
    /\ Len(matchedTracks) = 0
    /\ Len(searches) = 4

\* C10: on success the playlist handed to updatePlaylist and returned has
\* the cover art of the first matched track, or none when that track has
\* none (whatever later matched tracks have); its tracks are the matched
\* list; its importSource holds the detected platform, the parsed
\* identifier and the fetched playlist name.
C10_SavedPlaylist ==
    (result # Null /\ result.success) =>
        LET saved == result.playlist
            first == matchedTracks[1]
        IN  /\ saved = Last(updateCalls).playlist
            /\ saved.tracks = matchedTracks
            /\ saved.coverArt =
                  (IF first.coverArt \in {"", Absent} THEN Absent ELSE first.coverArt)
            /\ saved.importSource =
                  [platform |-> detectPlatform(url),
                   originalId |-> ParsedId(detectPlatform(url), url),
                   originalName |-> playlistData.name]
            /\ saved.name = Last(createCalls).name

C10_Witness ==
    /\ result # Null
    /\ result.success
    /\ Len(matchedTracks) = 2
    /\ matchedTracks[1].coverArt = ""
    /\ matchedTracks[2].coverArt = "cover-2"
    /\ result.playlist.coverArt = Absent

\* C11: when the metadata endpoint (strategy 1 of fetchSpotifyPlaylist)
\* answers with at least one track that has a title and an artist, the
\* fetcher returns exactly those tracks, and the only request it ever issues
\* is the one of strategy 1: strategies 2 and 3 are not attempted.
C11_FirstStrategyShortCircuits ==
    metaTracks # <<>> =>
        /\ pc \notin {"spotifyMeta", "spotifyScraper", "spotifyEmbed"}
        /\ requests = <<"api.spotifydown.com">>
        /\ IF playlistData = Null THEN FALSE ELSE playlistData.tracks = metaTracks

\* The run is over, and strategy 1 had answered with a valid track.
C11_Witness == metaTracks # <<>> /\ pc = "done" /\ platform = "spotify"

\* The tracks the fetcher handed to importPlaylist.
HandedOver == IF playlistData = Null THEN <<>> ELSE playlistData.tracks

HasTitle(t) == t.title # "" /\ t.title # Absent
HasArtist(t) == t.artist # "" /\ t.artist # Absent

\* C12 as stated: every track any fetcher hands over, and so every track
\* that reaches matchTrack or unmatchedTracks, has a title and an artist.
C12_EveryHandedOverTrackIsValid ==
    /\ \A k \in 1..Len(HandedOver) : HasTitle(HandedOver[k]) /\ HasArtist(HandedOver[k])
    /\ \A k \in 1..Len(unmatchedTracks) :
        HasTitle(unmatchedTracks[k]) /\ HasArtist(unmatchedTracks[k])

\* What a source guarantees of its tracks.
GuaranteedBySource(t) ==
    /\ platform = "spotify" => HasTitle(t) /\ HasArtist(t)
    /\ platform = "youtube" => HasArtist(t)

\* C12, amended: the tracks of a Spotify run all have a title and an
\* artist; the tracks of a YouTube run all have an artist (the default
\* 'Unknown Artist' at worst) but not always a title; the tracks of an Apple
\* run are handed over as the payload carries them. The same then holds of
\* the tracks placed in unmatchedTracks.
C12_ValidityDependsOnSource ==
    /\ \A k \in 1..Len(HandedOver) : GuaranteedBySource(HandedOver[k])
    /\ \A k \in 1..Len(unmatchedTracks) : GuaranteedBySource(unmatchedTracks[k])

\* A YouTube run that ended with an unmatched track that has no title and
\* another that has the default artist.
C12_Witness ==
    /\ platform = "youtube"
    /\ pc = "done"
    /\ \E j, k \in 1..Len(unmatchedTracks) :
        /\ ~HasTitle(unmatchedTracks[j])
        /\ unmatchedTracks[k].artist = "Unknown Artist"

\* The URL mentions one of the needles, in whatever letter case.
Mentions(u, needles) == \E n \in needles : includes(toLowerCase(u), n)

\* The platform a URL belongs to when the needles are tried in the order
\* Spotify, Apple Music, YouTube Music.
PlatformByPriority(u) ==
    CASE Mentions(u, {N_spotify_com, N_spotify_link}) -> "spotify"
      [] /\ ~Mentions(u, {N_spotify_com, N_spotify_link})
         /\ Mentions(u, {N_music_apple, N_itunes_apple}) -> "apple"
      [] /\ ~Mentions(u, {N_spotify_com, N_spotify_link})
         /\ ~Mentions(u, {N_music_apple, N_itunes_apple})
         /\ Mentions(u, {N_music_youtube, N_youtube_playlist}) -> "youtube"
      [] OTHER -> "unknown"

\* importPlaylist has classified the URL and has not gone further (url and
\* platform are constants of the invocation: what holds of them here holds
\* for the rest of the run).
JustClassified == platform # "unset" /\ requests = <<>> /\ playlistData = Null

\* Nothing outside the invocation was touched.
NoCallsMade ==
    /\ requests = <<>>
    /\ searches = <<>>
    /\ createCalls = <<>>
    /\ updateCalls = <<>>

\* C13: detectPlatform gives every URL one of the four platforms, the same
\* for the URL in any letter case, trying Spotify, then Apple Music, then
\* YouTube Music; and a run on an 'unknown' URL is over at once with the
\* unsupported-URL failure (all counts zero), without any progress event and
\* without a request, a catalog search or a storage call.
C13_UnknownPlatformStopsAtOnce ==
    platform # "unset" =>
        /\ platform \in {"spotify", "apple", "youtube", "unknown"}
        /\ JustClassified =>
            /\ platform = PlatformByPriority(url)
            /\ platform = detectPlatform(toLowerCase(url))
        /\ platform = "unknown" =>
            /\ pc = "done"
            /\ result = [success |-> FALSE, playlist |-> Null, totalTracks |-> 0,
                         matchedTracks |-> 0, unmatchedTracks |-> <<>>,
                         error |-> ERR_UNSUPPORTED]
            /\ progress = <<>>
            /\ NoCallsMade
            /\ ~thrown

\* A run on a URL of no known platform has returned.
C13_Witness == platform = "unknown" /\ pc = "done" /\ result # Null

\* The place of a stage in the order fetching, matching, saving, done (0: a
\* stage outside that order, 'error' included).
StageRank(stage) ==
    CASE stage = "fetching" -> 1
      [] stage = "matching" -> 2
      [] stage = "saving" -> 3
      [] stage = "done" -> 4
      [] OTHER -> 0

\* The parts of C15 other than the count of 'fetching' events: stages never
\* go backwards and 'error' is never emitted; no request is issued before
\* the 'fetching' event; 'saving' is emitted at most once and only when
\* every fetched track has been processed; 'done' is emitted at most once
\* and is the last event.
StagesInOrder ==
    /\ \A k \in 1..Len(progress) : StageRank(progress[k].stage) > 0
    /\ \A k \in 1..(Len(progress) - 1) :
        StageRank(progress[k].stage) <= StageRank(progress[k + 1].stage)
    /\ requests # <<>> => progress # <<>> /\ progress[1] = FetchingEvent
    /\ Len(StageEvents("saving")) <= 1
    /\ StageEvents("saving") # <<>> =>
        /\ i = NumTracks
        /\ Len(matchedTracks) + Len(unmatchedTracks) = NumTracks
    /\ Len(StageEvents("done")) <= 1
    /\ StageEvents("done") # <<>> => Last(progress).stage = "done" /\ pc = "done"

\* C15 as stated: the stages are in order (see StagesInOrder) and every
\* invocation emits the 'fetching' event exactly once.
C15_FetchingExactlyOnce ==
    /\ StagesInOrder
    /\ pc = "done" => Len(StageEvents("fetching")) = 1

\* C15, amended: the stages are in order, and the 'fetching' event is the
\* first event of every run on a URL of a recognised platform, emitted
\* exactly once there; a run on an 'unknown' URL emits no event at all.
C15_StagesOnlyAdvance ==
    /\ StagesInOrder
    /\ platform \in {"unset", "unknown"} => progress = <<>>
    /\ platform \in {"spotify", "apple", "youtube"} =>
        /\ Len(StageEvents("fetching")) = 1
        /\ progress[1] = FetchingEvent

\* A run went through all four stages, on more than one track.
C15_Witness ==
    /\ pc = "done"
    /\ NumTracks > 1
    /\ StageEvents("matching") # <<>>
    /\ StageEvents("saving") # <<>>
    /\ StageEvents("done") # <<>>

\* The Qobuz searches issued so far: matchTrack opens with one, so there is
\* one of them per call of matchTrack.
QobuzSearches == SelectSeq(searches, LAMBDA q : q.backend = "qobuz")

\* The number of tracks whose iteration has pushed to one of the two lists.
Settled == Len(matchedTracks) + Len(unmatchedTracks)

\* C16: matchTrack is called once per fetched track, in source order, one
\* call at a time: the call on track i+1 is made only when tracks 1..i are
\* settled and i pauses have elapsed, a Tidal search only follows the Qobuz
\* search of the same track, and a run over N tracks takes N-1 pauses, none
\* after the last track.
C16_MatchingIsSequential ==
    /\ Len(QobuzSearches) <= NumTracks
    /\ \A k \in 1..Len(QobuzSearches) :
        QobuzSearches[k].query = QueryOf(playlistData.tracks[k])
    /\ \A k \in 1..Len(searches) :
        searches[k].backend = "tidal" =>
            k > 1 /\ searches[k - 1] = [backend |-> "qobuz", query |-> searches[k].query]
    /\ pc = "qobuz" => Len(QobuzSearches) = i /\ Settled = i /\ pauses = i
    /\ pc = "tidal" => Len(QobuzSearches) = i + 1 /\ Settled = i /\ pauses = i
    /\ pc = "pause" => Len(QobuzSearches) = i + 1 /\ Settled = i + 1 /\ pauses = i
    /\ pc = "loop" => Len(QobuzSearches) = i /\ Settled = i
    /\ IF MatchingOver
       THEN Len(QobuzSearches) = NumTracks /\ pauses = NumTracks - 1
       ELSE pauses <= Len(QobuzSearches)
    /\ ~HasTracks => searches = <<>> /\ pauses = 0

\* The matching loop went over more than one track, with a Tidal search.
C16_Witness ==
    /\ MatchingOver
    /\ NumTracks > 1
    /\ pauses = NumTracks - 1
    /\ \E k \in 1..Len(searches) : searches[k].backend = "tidal"

\* The invocation returned a success result.
Succeeded == IF result = Null THEN FALSE ELSE result.success

\* createPlaylist was called once, with the fetched name, and resolved.
CreatedOnce == createCalls = <<[name |-> playlistData.name, ok |-> TRUE]>>

\* C17: a successful run calls createPlaylist exactly once, with the name
\* of the fetched playlist, then updatePlaylist exactly once, after
\* createPlaylist resolved; the 'done' event comes only after updatePlaylist
\* resolved, with current the number of matched tracks and total the number
\* of fetched tracks, and the success result only after that event.
C17_SaveThenDoneThenReturn ==
    /\ Len(createCalls) <= 1
    /\ Len(updateCalls) <= 1
    /\ updateCalls # <<>> => CreatedOnce
    /\ StageEvents("done") # <<>> =>
        /\ Len(updateCalls) = 1
        /\ updateCalls[1].ok
        /\ Last(progress) =
               [stage |-> "done", current |-> Len(matchedTracks), total |-> NumTracks]
    /\ Succeeded =>
        /\ CreatedOnce
        /\ Len(updateCalls) = 1
        /\ updateCalls[1].ok
        /\ Len(StageEvents("done")) = 1
        /\ Last(progress) =
               [stage |-> "done", current |-> result.matchedTracks,
                total |-> result.totalTracks]
        /\ result.matchedTracks = Len(matchedTracks)
        /\ result.totalTracks = NumTracks

\* A successful run in which one track was matched and another was not.
C17_Witness ==
    /\ Succeeded
    /\ Len(matchedTracks) = 1
    /\ Len(unmatchedTracks) > 0

Recognised == platform \in {"spotify", "apple", "youtube"}

\* The invalid-URL message that names a platform.
InvalidUrlMessage(p) ==
    CASE p = "spotify" -> "Invalid Spotify playlist URL"
      [] p = "apple" -> "Invalid Apple Music playlist URL"
      [] p = "youtube" -> "Invalid YouTube Music playlist URL"

\* C18: when the platform is recognised and its URL parser finds no
\* identifier, the run is over with success false, the invalid-URL error
\* that names the platform and all counts zero; no request, no catalog
\* search and no storage call was made, and the single 'fetching' event is
\* the only progress event.
C18_InvalidUrlStopsAfterFetching ==
    /\ JustClassified /\ Recognised => originalId = ParsedId(platform, url)
    /\ Recognised /\ originalId = NoId =>
        /\ pc = "done"
        /\ result = [success |-> FALSE, playlist |-> Null, totalTracks |-> 0,
                     matchedTracks |-> 0, unmatchedTracks |-> <<>>,
                     error |-> InvalidUrlMessage(platform)]
        /\ progress = <<[stage |-> "fetching", current |-> 0, total |-> 0]>>
        /\ NoCallsMade
        /\ playlistData = Null
        /\ ~thrown

\* A run on an Apple Music URL without a playlist identifier has returned.
C18_Witness == platform = "apple" /\ originalId = NoId /\ pc = "done" /\ result # Null

\* The elements of s at the positions in S, in the order of s.
AtPositions(s, S) ==
    LET kept == SelectSeq([k \in 1..Len(s) |-> k], LAMBDA k : k \in S)
    IN  [k \in 1..Len(kept) |-> s[kept[k]]]

\* The source track a matched track stands for.
OriginalOf(m) == [title |-> m.originalTitle, artist |-> m.originalArtist]

\* The settled tracks split into the matched and the unmatched list: some
\* set of positions gives the matched tracks, the other positions give the
\* unmatched ones, each list in source order.
SplitsSettledTracks ==
    LET settled == SubSeq(playlistData.tracks, 1, Settled)
    IN  \E S \in SUBSET (1..Settled) :
            /\ [k \in 1..Len(matchedTracks) |-> OriginalOf(matchedTracks[k])]
                   = AtPositions(settled, S)
            /\ unmatchedTracks = AtPositions(settled, (1..Settled) \ S)

\* C19: every returned ImportResult has matchedTracks +
\* unmatchedTracks.length = totalTracks; and in a run that reaches matching
\* every processed track is in exactly one of the two lists, both lists in
\* source order, all fetched tracks being processed when the loop is over.
C19_CountsAddUp ==
    /\ result # Null =>
        result.matchedTracks + Len(result.unmatchedTracks) = result.totalTracks
    /\ IF HasTracks
       THEN /\ Settled <= NumTracks
            /\ SplitsSettledTracks
            /\ MatchingOver => Settled = NumTracks
            /\ MatchingOver /\ result # Null =>
                /\ result.totalTracks = NumTracks
                /\ result.matchedTracks = Len(matchedTracks)
                /\ result.unmatchedTracks = unmatchedTracks
       ELSE matchedTracks = <<>> /\ unmatchedTracks = <<>>

\* A run over two tracks returned with one of them in each list.
C19_Witness ==
    /\ result # Null
    /\ result.totalTracks = 2
    /\ result.matchedTracks = 1
    /\ Len(result.unmatchedTracks) = 1

\* The number of requests a fetcher may issue: one per strategy for
\* Spotify, one for Apple Music, one per instance for YouTube Music.
RequestBudget ==
    CASE platform = "spotify" -> 3
      [] platform = "apple" -> 1
      [] platform = "youtube" -> Len(INVIDIOUS_INSTANCES)
      [] OTHER -> 0

TidalSearches == SelectSeq(searches, LAMBDA q : q.backend = "tidal")

\* Nothing is attempted twice: no request is repeated, a track gets at most
\* one Qobuz and one Tidal search, each storage call is made at most once.
WithinBudget ==
    /\ Len(requests) <= RequestBudget
    /\ Len(requests) <= 3
    /\ \A j, k \in 1..Len(requests) : j # k => requests[j] # requests[k]
    /\ Len(QobuzSearches) <= NumTracks
    /\ Len(TidalSearches) <= Len(QobuzSearches)
    /\ Len(searches) <= 2 * NumTracks
    /\ Len(createCalls) <= 1
    /\ Len(updateCalls) <= 1

\* The invocation is over: its promise resolved to an ImportResult or was
\* rejected by a storage failure.
Terminated == pc = "done" /\ (result # Null \/ thrown)

\* C20: when every awaited call settles, every invocation terminates, and
\* it never issues more than 3 fetcher requests (3 for Spotify, 1 for Apple
\* Music, one per instance for YouTube Music) nor more than 2 catalog
\* searches per fetched track: nothing is retried.
C20_TerminatesWithinBudget == []WithinBudget /\ <>Terminated

\* A YouTube run that used every instance and both backends on every track
\* is over.
C20_Witness ==
    /\ Terminated
    /\ platform = "youtube"
    /\ Len(requests) = Len(INVIDIOUS_INSTANCES)
    /\ NumTracks > 1
    /\ Len(searches) = 2 * NumTracks

RECURSIVE AloneAfter(_, _, _, _)
\* Where a run of invocation k that has the program to itself stands after n
\* steps, from the state st, under the script sc.
AloneAfter(st, sc, k, n) ==
    IF n = 0 THEN st
    ELSE AloneAfter(ImportStep(st.loc, st.lists, sc, k), sc, k, n - 1)

\* Invocation k, run alone on its script, as far as it has come in the pair.
Alone(k) ==
    AloneAfter([loc |-> LocalInit, lists |-> EmptyLists], pair.scripts[k], k,
               pair.loc[k].steps)

\* C14: two invocations of importPlaylist whose awaits interleave in any way
\* do not interfere: after every step, each invocation stands exactly where
\* it would stand had it run alone on the same collaborator answers, with
\* the same progress events emitted, the same two lists and, at the end, the
\* same ImportResult.
C14_InvocationsDoNotInterfere ==
    \A k \in DOMAIN pair.loc :
        LET alone == Alone(k)
        IN  /\ pair.loc[k].progress = alone.loc.progress
            /\ pair.loc[k].result = alone.loc.result
            /\ pair.loc[k] = alone.loc
            /\ pair.lists[k] = alone.lists

\* Both invocations are in the middle of their matching loops, one waiting
\* for Tidal and the other pausing, each with a track already settled.
C14_Witness ==
    /\ pair # PairIdle
    /\ pair.loc[1].pc = "tidal"
    /\ pair.loc[1].i = 1
    /\ pair.loc[2].pc = "pause"
    /\ Len(pair.lists[2].matchedTracks) = 1

====
